---- MODULE Spec2Model ----
(***************************************************************************)
(* A model of the adaptive-filter core of ANC-adaptive-filters:            *)
(*   - FilterModel.filter, the sample-by-sample filter loop                *)
(*     (adaptive_filter/filter_models/filter_model.py),                    *)
(*   - the weight updates of FilterModel, LMS and NLMS                     *)
(*     (filter_model.py, tests/algorithms/test_lms.py, algorithms/nlms.py),*)
(*   - EvaluationSuite.MSE (adaptive_filter/utils/evaluation.py),          *)
(*   - the per-file loop of noise_evaluation (adaptive_filter/evaluation.py)*)
(*                                                                         *)
(* Numbers.  The program computes in float64.  The model computes in exact *)
(* rational arithmetic: a number is a pair <<n, d>> in lowest terms with   *)
(* d > 0.  Rounding is therefore not modelled; np.linalg.norm(x) ** 2 is   *)
(* the sum of the squares.  Three pairs with d = 0 are not numbers:        *)
(*   NaN         what float64 gives for 0/0 (np.mean of an empty array),   *)
(*   Inf         what float64 gives for a/0, a # 0,                        *)
(*   OutOfRange  a value whose numerator or denominator exceeds            *)
(*               MaxMagnitude: the model cannot represent it, and a run    *)
(*               that computes one is abandoned (pc = "out_of_range").     *)
(***************************************************************************)
EXTENDS Integers, Sequences, FiniteSets

(***************************************************************************)
(* Bounds of the model.                                                    *)
(***************************************************************************)
\* the longest signal a caller passes (flattened length)
MaxLen == 2
\* the largest filter order N an instance is constructed with
MaxOrder == 2
\* the number of filter() calls (files of the harness, or threads)
MaxRuns == 2
\* the longest window handed to update_step on its own
MaxWin == 2
\* the longest pair of sequences handed to MSE on its own
MaxSeq == 3
\* the largest numerator or denominator the model represents
MaxMagnitude == 1000000000

(***************************************************************************)
(* Exact rational arithmetic (the model's stand-in for float64).           *)
(***************************************************************************)
NaN == <<0, 0>>

Inf == <<1, 0>>

OutOfRange == <<2, 0>>

Finite(p) == p[2] > 0

Abs(a) == IF a < 0 THEN -a ELSE a

RECURSIVE GCD(_, _)
GCD(a, b) == IF b = 0 THEN a ELSE GCD(b, a % b)

\* a * b stays within MaxMagnitude
MulFits(a, b) == a = 0 \/ b = 0 \/ Abs(a) <= MaxMagnitude \div Abs(b)

\* the non-number an operation on p and q gives when one of them is none
Special(p, q) ==
    IF p = OutOfRange \/ q = OutOfRange THEN OutOfRange
    ELSE IF ~Finite(p) THEN p ELSE q

Rat(n) == <<n, 1>>

Frac(n, d) == LET g == GCD(Abs(n), d) IN <<n \div g, d \div g>>

RNeg(p) == IF Finite(p) THEN <<-p[1], p[2]>> ELSE p

RAdd(p, q) ==
    IF ~Finite(p) \/ ~Finite(q) THEN Special(p, q)
    ELSE LET g == GCD(p[2], q[2])
             a == q[2] \div g
             b == p[2] \div g
         IN IF ~(MulFits(p[1], a) /\ MulFits(q[1], b) /\ MulFits(p[2], a))
            THEN OutOfRange
            ELSE LET n == p[1] * a + q[1] * b
                 IN IF Abs(n) > MaxMagnitude THEN OutOfRange
                    ELSE Frac(n, p[2] * a)

RSub(p, q) == RAdd(p, RNeg(q))

RMul(p, q) ==
    IF ~Finite(p) \/ ~Finite(q) THEN Special(p, q)
    ELSE LET g1 == GCD(Abs(p[1]), q[2])
             g2 == GCD(Abs(q[1]), p[2])
             a == p[1] \div g1
             b == q[1] \div g2
             c == p[2] \div g2
             e == q[2] \div g1
         IN IF MulFits(a, b) /\ MulFits(c, e) THEN <<a * b, c * e>>
            ELSE OutOfRange

\* p / q; float64 division by zero gives inf or nan, not an exception
RDiv(p, q) ==
    IF ~Finite(p) \/ ~Finite(q) THEN Special(p, q)
    ELSE IF q[1] = 0 THEN (IF p[1] = 0 THEN NaN ELSE Inf)
    ELSE IF q[1] > 0 THEN RMul(p, <<q[2], q[1]>>)
    ELSE RMul(p, <<-q[2], -q[1]>>)

\* p <= q, for numbers
RLeq(p, q) == LET s == RSub(q, p) IN Finite(s) /\ s[1] >= 0

RAbs(p) == IF Finite(p) THEN <<Abs(p[1]), p[2]>> ELSE p

Zero == Rat(0)

\* every element of the vector is a number
AllFinite(v) == \A i \in 1..Len(v) : Finite(v[i])

\* some element of the vector is beyond the model's range
AnyOutOfRange(v) == \E i \in 1..Len(v) : v[i] = OutOfRange

\* np.zeros(n)
zeros(n) == [i \in 1..n |-> Zero]

\* a * v, a scalar times a vector
Scale(a, v) == [i \in 1..Len(v) |-> RMul(a, v[i])]

\* v + w, element-wise
VAdd(v, w) == [i \in 1..Len(v) |-> RAdd(v[i], w[i])]

\* v - w, element-wise
VSub(v, w) == [i \in 1..Len(v) |-> RSub(v[i], w[i])]

RECURSIVE Sum(_)
Sum(v) == IF Len(v) = 0 THEN Zero ELSE RAdd(Sum(SubSeq(v, 1, Len(v) - 1)), v[Len(v)])

\* np.dot(w, v) of two vectors of one length
Dot(w, v) == Sum([i \in 1..Len(v) |-> RMul(w[i], v[i])])

\* np.linalg.norm(v) ** 2 in exact arithmetic
NormSq(v) == Dot(v, v)

\* all sequences over S of length 0..n
RECURSIVE SeqsUpTo(_, _)
SeqsUpTo(S, n) ==
    IF n = 0 THEN {<<>>}
    ELSE LET shorter == SeqsUpTo(S, n - 1)
         IN shorter \cup {Append(s, v) : s \in {t \in shorter : Len(t) = n - 1}, v \in S}

(***************************************************************************)
(* The weight updates.                                                     *)
(***************************************************************************)
Algorithms == {"FilterModel", "LMS", "NLMS"}

\* NLMS.__init__: self.eps = 1e-6
eps == Frac(1, 1000000)

\* FilterModel.update_step: np.zeros(len(x_n))
FilterModel_update_step(e_n, x_n) == zeros(Len(x_n))

\* LMS.update_step without the error factor
LMS_update_step_noError(m, e_n, x_n) == Scale(m, x_n)

\* LMS.update_step: mu * e_n * x_n
LMS_update_step(m, e_n, x_n) == Scale(RMul(m, e_n), x_n)

\* NLMS_p without the regulariser
NLMS_p_noEps(x_n) == NormSq(x_n)

\* NLMS.update_step, its assignment: self.p = self.eps + np.linalg.norm(x_n) ** 2
NLMS_p(x_n) == RAdd(eps, NormSq(x_n))

\* NLMS.update_step dividing by the squared norm alone
NLMS_update_step_unguarded(m, e_n, x_n) == Scale(RMul(RDiv(m, NormSq(x_n)), e_n), x_n)

\* NLMS.update_step, its result: (self.mu / self.p) * e_n * x_n
NLMS_update_step(m, e_n, x_n) == Scale(RMul(RDiv(m, NLMS_p(x_n)), e_n), x_n)

\* self.update_step(e_n, x_n), dispatched on the class of self
update_step(alg, m, e_n, x_n) ==
    CASE alg = "FilterModel" -> FilterModel_update_step(e_n, x_n)
      [] alg = "LMS" -> LMS_update_step(m, e_n, x_n)
      [] alg = "NLMS" -> NLMS_update_step(m, e_n, x_n)

\* FilterModel.noise_estimate: np.dot(self.W, x_n)
FilterModel_noise_estimate(Wv, x_n) == Dot(Wv, x_n)

\* FilterModel.error: d_n - noise_estimate
FilterModel_error(d_n, y_n) == RSub(d_n, y_n)

(***************************************************************************)
(* FilterModel.filter.                                                     *)
(***************************************************************************)
\* an array as a caller passes it: its shape and its elements in row-major order
Arr(shape, data) == [shape |-> shape, data |-> data]

ndim(a) == Len(a.shape)

\* np.asarray(a).ravel(): the same elements as a one-dimensional array
ravel(a) == Arr(<<Len(a.data)>>, a.data)

\* a[:k] of a one-dimensional array
Prefix(a, k) == IF k < Len(a) THEN SubSeq(a, 1, k) ELSE a

\* Truncate without its second step (the clean signal is never looked at)
Truncate_firstStepOnly(dv, xv, cv) ==
    [d |-> dv, x |-> IF Len(dv) < Len(xv) THEN Prefix(xv, Len(dv)) ELSE xv]

\* the two-step truncation: x to len(d), then d and x to len(clean_signal)
Truncate(dv, xv, cv) ==
    LET x1 == IF Len(dv) < Len(xv) THEN Prefix(xv, Len(dv)) ELSE xv
    IN IF Len(cv) < Len(dv)
       THEN [d |-> Prefix(dv, Len(cv)), x |-> Prefix(x1, Len(cv))]
       ELSE [d |-> dv, x |-> x1]

\* InitWeights that draws only when the instance has no weights yet
InitWeights_keepOld(seen, draws) ==
    IF seen # <<>> /\ Len(seen) = Len(draws) THEN seen ELSE Scale(Frac(1, 1000), draws)

\* self.W = np.random.normal(0.0, 0.5, self.N); self.W *= 0.001
\* (draws: what np.random.normal returned; seen: self.W as the call found it)
InitWeights(seen, draws) == Scale(Frac(1, 1000), draws)

\* np.roll(circ_buffer, 1), then circ_buffer[0] = x_n
Push_oldestFirst(buf, x_n) == SubSeq(buf, 2, Len(buf)) \o <<x_n>>

Push(buf, x_n) == <<x_n>> \o SubSeq(buf, 1, Len(buf) - 1)

(***************************************************************************)
(* The memory of the arrays of filter().  d, x and clean_signal are the    *)
(* caller's arrays seen through np.asarray(...).ravel() and the slices of  *)
(* the truncation, which copy nothing: they share the caller's memory from *)
(* its first element on.  np.zeros and np.roll allocate: noise_estimate,   *)
(* error and circ_buffer have memory of their own.  Backing names the      *)
(* caller's array a local array shares its memory with.                    *)
(***************************************************************************)
Backing_errorOverD(name) ==
    IF name \in {"d", "x", "clean_signal"} THEN name
    ELSE IF name = "error" THEN "d" ELSE "none"

Backing(name) == IF name \in {"d", "x", "clean_signal"} THEN name ELSE "none"

\* the caller's arrays after name[idx] = v, idx counted from 1
Store(mem, name, idx, v) ==
    LET b == Backing(name)
    IN IF b = "none" \/ idx > Len(mem[b].data) THEN mem
       ELSE [mem EXCEPT ![b] = Arr(@.shape, [@.data EXCEPT ![idx] = v])]

\* the caller's arrays after the three element stores of iteration n (lines
\* 131, 134, 136), s being what the iteration computed
LoopStores(mem, n, x_n, s) ==
    Store(Store(Store(mem, "circ_buffer", 1, x_n), "noise_estimate", n, s.y), "error", n, s.e)

\* SampleStep predicting from the window as it was before x_n was pushed
SampleStep_staleWindow(alg, m, Wv, pv, buf, x_n, d_n) ==
    LET b == Push(buf, x_n)
        y == FilterModel_noise_estimate(Wv, buf)
        e == FilterModel_error(d_n, y)
    IN [circ_buffer |-> b,
        y |-> y,
        e |-> e,
        W |-> VAdd(Wv, update_step(alg, m, e, b)),
        p |-> IF alg = "NLMS" THEN NLMS_p(b) ELSE pv]

\* one iteration of the sample loop on weights Wv and normaliser pv
SampleStep(alg, m, Wv, pv, buf, x_n, d_n) ==
    LET b == Push(buf, x_n)
        y == FilterModel_noise_estimate(Wv, b)
        e == FilterModel_error(d_n, y)
    IN [circ_buffer |-> b,
        y |-> y,
        e |-> e,
        W |-> VAdd(Wv, update_step(alg, m, e, b)),
        p |-> IF alg = "NLMS" THEN NLMS_p(b) ELSE pv]

\* the model can represent everything the iteration computed
Representable(s) ==
    /\ s.y # OutOfRange
    /\ s.e # OutOfRange
    /\ ~AnyOutOfRange(s.W)
    /\ s.p # OutOfRange

(***************************************************************************)
(* State.                                                                  *)
(*   algorithm, mu, N   the filter instance as constructed (self.algorithm,*)
(*                      self.mu, self.N); select_algorithm builds every    *)
(*                      instance from one set of parameters                *)
(*   W, p               self.W and self.p of each instance; W = <<>> is an *)
(*                      instance filter() was never called on              *)
(*   run                one activation of filter() per run: its position   *)
(*                      pc, the instance it runs on, its arguments, its    *)
(*                      local variables, what it raised or returned, and   *)
(*                      the history the properties refer to: W0 and Whist, *)
(*                      weights at the start and after every sample; iters,*)
(*                      the iterations entered; draws, what the random     *)
(*                      generator returned; staleW and staleP, whether the *)
(*                      call found weights other than its fresh ones and a *)
(*                      normaliser other than 0.0 on the instance; caller, *)
(*                      the caller's three arrays as they are now, while   *)
(*                      arg_d, arg_x, arg_clean keep them as passed        *)
(*   upd                one call of update_step on its own                 *)
(*   mse                one call of EvaluationSuite.MSE on its own        *)
(*   snr_call           one call of EvaluationSuite.SNR on its own        *)
(*   sel                one call of select_algorithm on its own           *)
(***************************************************************************)
VARIABLES algorithm, mu, N, W, p, run, upd, mse, snr_call, sel

vars == <<algorithm, mu, N, W, p, run, upd, mse, snr_call, sel>>

Runs == 1..MaxRuns

Instances == {1, 2}

\* the filter orders an instance is constructed with; no constructor checks N
Orders == -1..MaxOrder

\* the step sizes an instance is constructed with
StepSizes == {Frac(1, 2)}

\* sample values of the reference signal
SampleValues == {Rat(0), Rat(1)}

\* the reference signals x a caller passes: any samples, any length
ReferenceSignals == SeqsUpTo(SampleValues, MaxLen)

\* the desired signals d a caller passes: the ramp 1, 2, ... of any length
DesiredSignals == {[n \in 1..L |-> Rat(n)] : L \in 0..MaxLen}

\* the clean signals a caller passes: all ones, of any length
CleanSignals == {[n \in 1..L |-> Rat(1)] : L \in 0..MaxLen}

\* what np.random.normal(0.0, 0.5, n) may return: n equal draws of 2 or of -2
NormalDraws(n) == {[i \in 1..n |-> Rat(2)], [i \in 1..n |-> Rat(-2)]}

\* a flat sequence as a one- or two-dimensional array
Shaped(data, k) == IF k = 1 THEN Arr(<<Len(data)>>, data) ELSE Arr(<<1, Len(data)>>, data)

\* the numbers of dimensions of (d, x, clean_signal) a caller passes
ShapeChoices == {<<1, 1, 1>>, <<2, 1, 1>>, <<1, 2, 1>>, <<1, 1, 2>>}

EmptyArr == Arr(<<0>>, <<>>)

IdleFrame ==
    [pc |-> "idle", inst |-> 1,
     arg_d |-> EmptyArr, arg_x |-> EmptyArr, arg_clean |-> EmptyArr,
     return_metrics |-> FALSE,
     d |-> <<>>, x |-> <<>>, clean_signal |-> <<>>,
     num_samples |-> 0, noise_estimate |-> <<>>, error |-> <<>>,
     circ_buffer |-> <<>>, sample |-> 0,
     raised |-> "none", ret |-> <<>>,
     W0 |-> <<>>, Whist |-> <<>>, iters |-> 0, draws |-> <<>>,
     staleW |-> FALSE, staleP |-> FALSE,
     caller |-> [d |-> EmptyArr, x |-> EmptyArr, clean_signal |-> EmptyArr]]

IdleUpd == [pc |-> "off", alg |-> "LMS", mu |-> Zero, e |-> Zero, x |-> <<>>,
            out |-> <<>>, p |-> Zero, expected |-> <<>>, passed |-> FALSE]

IdleMse == [pc |-> "off", a |-> <<>>, b |-> <<>>, out |-> Zero]

IdleSnr == [pc |-> "off", desired_signal |-> <<>>, noisy_signal |-> <<>>, out |-> <<>>]

IdleSel == [pc |-> "off", filter_order |-> 0, mu |-> Zero, algorithm |-> "",
            block_size |-> 0, out |-> <<>>]

\* FilterModel.__init__ / NLMS.__init__ (self.p = 0.0), by select_algorithm
Construct ==
    /\ algorithm \in Algorithms
    /\ mu \in StepSizes
    /\ N \in Orders
    /\ W = [i \in Instances |-> <<>>]
    /\ p = [i \in Instances |-> Zero]

Init ==
    /\ Construct
    /\ run = [r \in Runs |-> IdleFrame]
    /\ upd = IdleUpd
    /\ mse = IdleMse
    /\ snr_call = IdleSnr
    /\ sel = IdleSel

(***************************************************************************)
(* filter(), up to the sample loop (lines 88-128), as one step of run r on *)
(* instance i with arguments a_d, a_x, a_c; frames are the activations as  *)
(* the caller leaves them.                                                 *)
(***************************************************************************)
Prologue(frames, r, i, a_d, a_x, a_c, rm, draws) ==
    LET f0 == [IdleFrame EXCEPT !.inst = i, !.arg_d = a_d, !.arg_x = a_x,
                                !.arg_clean = a_c, !.return_metrics = rm,
                                !.draws = draws,
                                !.staleW = (W[i] # <<>> /\ W[i] # Scale(Frac(1, 1000), draws)),
                                !.staleP = (p[i] # Zero),
                                !.caller = [d |-> a_d, x |-> a_x, clean_signal |-> a_c]]
        w0 == InitWeights(W[i], draws)
        dd == ravel(a_d)
        xx == ravel(a_x)
        cc == ravel(a_c)
        t == Truncate(dd.data, xx.data, cc.data)
    IN IF N < 0
       THEN \* np.random.normal raises ValueError: negative dimensions
            /\ run' = [frames EXCEPT ![r] = [f0 EXCEPT !.pc = "raised", !.raised = "ValueError"]]
            /\ UNCHANGED W
       ELSE /\ W' = [W EXCEPT ![i] = w0]
            /\ IF ndim(dd) # 1 \/ ndim(xx) # 1 \/ ndim(cc) # 1
               THEN run' = [frames EXCEPT ![r] =
                               [f0 EXCEPT !.pc = "raised", !.raised = "ValueError", !.W0 = w0]]
               ELSE run' = [frames EXCEPT ![r] =
                               [f0 EXCEPT !.pc = "loop", !.W0 = w0, !.Whist = <<w0>>,
                                          !.d = t.d, !.x = t.x, !.clean_signal = cc.data,
                                          !.num_samples = Len(t.x),
                                          !.noise_estimate = zeros(Len(t.x)),
                                          !.error = zeros(Len(t.x)),
                                          !.circ_buffer = zeros(N),
                                          !.sample = 0]]

\* filter() called once, on instance 1, with any arguments
Call(r) ==
    /\ r = 1
    /\ run[r].pc = "idle"
    /\ \E dv \in DesiredSignals, xv \in ReferenceSignals,
          cv \in CleanSignals, k \in ShapeChoices, rm \in BOOLEAN,
          draws \in NormalDraws(IF N < 0 THEN 0 ELSE N) :
          Prologue(run, r, 1, Shaped(dv, k[1]), Shaped(xv, k[2]), Shaped(cv, k[3]), rm, draws)
    /\ UNCHANGED <<algorithm, mu, N, p, upd, mse, snr_call, sel>>

\* one iteration of the sample loop (lines 129-143)
LoopStep(r) ==
    LET f == run[r]
        n == f.sample + 1
        s == SampleStep(algorithm, mu, W[f.inst], p[f.inst], f.circ_buffer, f.x[n], f.d[n])
    IN /\ f.pc = "loop"
       /\ f.sample < f.num_samples
       /\ IF N = 0
          THEN \* circ_buffer[0] = x[sample] on an array of size 0: IndexError
               /\ run' = [run EXCEPT ![r] = [f EXCEPT !.pc = "raised", !.raised = "IndexError",
                                                      !.iters = f.iters + 1]]
               /\ UNCHANGED <<W, p>>
          ELSE IF ~Representable(s)
          THEN /\ run' = [run EXCEPT ![r] = [f EXCEPT !.pc = "out_of_range"]]
               /\ UNCHANGED <<W, p>>
          ELSE /\ run' = [run EXCEPT ![r] =
                             [f EXCEPT !.circ_buffer = s.circ_buffer,
                                       !.noise_estimate = [f.noise_estimate EXCEPT ![n] = s.y],
                                       !.error = [f.error EXCEPT ![n] = s.e],
                                       !.caller = LoopStores(f.caller, n, f.x[n], s),
                                       !.sample = n,
                                       !.iters = f.iters + 1,
                                       !.Whist = Append(f.Whist, s.W)]]
               /\ W' = [W EXCEPT ![f.inst] = s.W]
               /\ p' = [p EXCEPT ![f.inst] = s.p]
       /\ UNCHANGED <<algorithm, mu, N, upd, mse, snr_call, sel>>

\* the end of the loop and the return (lines 145-184); with return_metrics the
\* metrics are computed from (d, noise_estimate, clean_signal, error) by
\* adaptive_filter.utils.metrics, and the same two arrays are returned first
LoopExit(r) ==
    LET f == run[r]
    IN /\ f.pc = "loop"
       /\ f.sample = f.num_samples
       /\ run' = [run EXCEPT ![r] =
                     [f EXCEPT !.pc = "done",
                               !.ret = [error |-> f.error,
                                        noise_estimate |-> f.noise_estimate,
                                        with_metrics |-> f.return_metrics]]]
       /\ UNCHANGED <<algorithm, mu, N, W, p, upd, mse, snr_call, sel>>

Next == \E r \in Runs : Call(r) \/ LoopStep(r) \/ LoopExit(r)

Spec == Init /\ [][Next]_vars

(***************************************************************************)
(* Properties of one filter() call (specification Spec).                   *)
(***************************************************************************)
Min(a, b) == IF a <= b THEN a ELSE b

\* min(len(d), len(x), len(clean_signal)) of the arguments of run r
MinLen(r) ==
    Min(Len(run[r].arg_d.data), Min(Len(run[r].arg_x.data), Len(run[r].arg_clean.data)))

\* all three arguments of run r are one-dimensional
OneDimensional(r) ==
    ndim(run[r].arg_d) = 1 /\ ndim(run[r].arg_x) = 1 /\ ndim(run[r].arg_clean) = 1

\* the input window at sample n (from 1): x[n], x[n-1], ..., zero before the start
Window(xs, n, order) == [i \in 1..order |-> IF n - i >= 0 THEN xs[n - i + 1] ELSE Zero]

\* C1: a call with one-dimensional arguments of any lengths returns error and
\* noise_estimate of one length, min(len(d), len(x), len(clean_signal)).
C1_OutputLengths ==
    \A r \in Runs :
        (run[r].pc = "done" /\ OneDimensional(r)) =>
            /\ Len(run[r].ret.error) = Len(run[r].ret.noise_estimate)
            /\ Len(run[r].ret.error) = MinLen(r)

\* a call returned a non-empty output shorter than the filter order, after the
\* second truncation step had something to cut
C1_Witness ==
    \E r \in Runs :
        /\ run[r].pc = "done" /\ OneDimensional(r)
        /\ Len(run[r].arg_clean.data) < Len(run[r].arg_d.data)
        /\ Len(run[r].ret.error) >= 1
        /\ Len(run[r].ret.error) < N

\* C2 (as claimed): when the loop starts, and when the metrics are computed, d, x
\* and clean_signal all have the length min(len(d), len(x), len(clean_signal)).
C2_CommonLength ==
    \A r \in Runs :
        (run[r].pc \in {"loop", "done"} /\ OneDimensional(r) /\ N >= 1) =>
            /\ Len(run[r].d) = MinLen(r)
            /\ Len(run[r].x) = MinLen(r)
            /\ Len(run[r].clean_signal) = MinLen(r)

\* C3: at every point of the loop the outputs so far are those of the recurrence
\* y[n] = dot(W_n, window_n), e[n] = d[n] - y[n], W_{n+1} = W_n + update_step(e[n],
\* window_n) from W_0, the weights drawn at the start of the call, and self.W is
\* W_n for the next sample n: the weights change only by these updates.
C3_Recurrence ==
    \A r \in Runs :
        run[r].pc \in {"loop", "done"} =>
            LET f == run[r]
            IN /\ Len(f.Whist) = f.sample + 1
               /\ f.Whist[1] = f.W0
               /\ W[f.inst] = f.Whist[f.sample + 1]
               /\ \A n \in 1..f.sample :
                     LET win == Window(f.x, n, N)
                         y == Dot(f.Whist[n], win)
                         e == RSub(f.d[n], y)
                     IN /\ f.noise_estimate[n] = y
                        /\ f.error[n] = e
                        /\ f.Whist[n + 1] = VAdd(f.Whist[n], update_step(algorithm, mu, e, win))

\* a call finished two samples, and the update of the first changed the
\* prediction of the second
C3_Witness ==
    \E r \in Runs :
        /\ run[r].pc = "done"
        /\ run[r].sample >= 2
        /\ run[r].Whist[2] # run[r].Whist[1]
        /\ run[r].noise_estimate[2] # Dot(run[r].W0, Window(run[r].x, 2, N))

\* C4 (as claimed): a call with an argument that is not one-dimensional fails
\* with ValueError before the loop runs.
C4_RejectsNon1D ==
    \A r \in Runs :
        (run[r].pc # "idle" /\ ~OneDimensional(r) /\ N >= 1) =>
            /\ run[r].pc = "raised"
            /\ run[r].raised = "ValueError"
            /\ run[r].iters = 0

\* C5 (as claimed): the sample loop is never entered with N <= 0.
C5_RejectsNonPositiveOrder ==
    N <= 0 => \A r \in Runs : run[r].iters = 0

(***************************************************************************)
(* update_step on its own (specification SpecUpd): an instance of order    *)
(* len(x_n) is constructed, as test_update_step does, and update_step is   *)
(* called once, by a caller or by the test.                                *)
(***************************************************************************)
UpdStepSizes == {Frac(1, 2), Rat(1), Rat(-1)}

ErrorValues == {Rat(0), Rat(1), Rat(2), Rat(-1)}

TapValues == {Rat(0), Rat(1), Rat(-1), Rat(2), Rat(5), Rat(3), Rat(4), Frac(1, 2), Frac(1, 4)}

\* the parametrisation of test_update_step
TestCases ==
    {[mu |-> Frac(1, 2), e_n |-> Rat(2), x_n |-> <<Rat(1), Rat(-1)>>,
      expected_result |-> <<Rat(1), Rat(-1)>>],
     [mu |-> Rat(1), e_n |-> Rat(1), x_n |-> <<Rat(5), Rat(2)>>,
      expected_result |-> <<Rat(5), Rat(2)>>],
     [mu |-> Rat(-1), e_n |-> Rat(1), x_n |-> <<Frac(1, 2), Frac(1, 4)>>,
      expected_result |-> <<Frac(-1, 2), Frac(-1, 4)>>]}

\* np.testing.assert_allclose(actual, desired, rtol=1e-8) passes
AllClose(actual, desired) ==
    /\ Len(actual) = Len(desired)
    /\ \A i \in 1..Len(desired) :
          RLeq(RAbs(RSub(actual[i], desired[i])), RMul(Frac(1, 100000000), RAbs(desired[i])))

InitUpd ==
    /\ algorithm \in Algorithms
    /\ mu \in UpdStepSizes
    /\ N \in 0..MaxWin
    /\ W = [i \in Instances |-> <<>>]
    /\ p = [i \in Instances |-> Zero]
    /\ run = [r \in Runs |-> IdleFrame]
    /\ \E e \in ErrorValues, x \in SeqsUpTo(TapValues, MaxWin) :
          /\ Len(x) = N
          /\ upd = [IdleUpd EXCEPT !.pc = "ready", !.alg = algorithm, !.mu = mu,
                                   !.e = e, !.x = x]
    /\ mse = IdleMse
    /\ snr_call = IdleSnr
    /\ sel = IdleSel

\* output = filter.update_step(e_n, x_n)
UpdateStep ==
    /\ upd.pc = "ready"
    /\ upd' = [upd EXCEPT !.pc = "called",
                          !.out = update_step(algorithm, mu, upd.e, upd.x)]
    /\ p' = [p EXCEPT ![1] = IF algorithm = "NLMS" THEN NLMS_p(upd.x) ELSE @]
    /\ UNCHANGED <<algorithm, mu, N, W, run, mse, snr_call, sel>>

\* test_update_step on one of its cases
test_update_step ==
    /\ upd.pc = "ready"
    /\ algorithm = "LMS"
    /\ \E c \in TestCases :
          /\ c.mu = mu /\ c.e_n = upd.e /\ c.x_n = upd.x
          /\ LET output == LMS_update_step(mu, upd.e, upd.x)
             IN upd' = [upd EXCEPT !.pc = "tested", !.out = output,
                                   !.expected = c.expected_result,
                                   !.passed = AllClose(output, c.expected_result)]
    /\ UNCHANGED <<algorithm, mu, N, W, p, run, mse, snr_call, sel>>

NextUpd == UpdateStep \/ test_update_step

SpecUpd == InitUpd /\ [][NextUpd]_vars

\* C6: LMS.update_step(e, x) has the length of x and element i is mu * e * x[i],
\* for every mu (negative too), e and x; the three cases of the test pass.
C6_LmsUpdate ==
    (upd.pc \in {"called", "tested"} /\ algorithm = "LMS") =>
        /\ Len(upd.out) = Len(upd.x)
        /\ \A i \in 1..Len(upd.x) : upd.out[i] = RMul(mu, RMul(upd.e, upd.x[i]))
        /\ upd.pc = "tested" => upd.passed

\* the test ran its first case: mu = 0.5, e = 2, x = [1, -1] gave [1, -1]
C6_Witness ==
    /\ upd.pc = "tested" /\ algorithm = "LMS"
    /\ mu = Frac(1, 2) /\ upd.e = Rat(2) /\ upd.x = <<Rat(1), Rat(-1)>>
    /\ upd.out = <<Rat(1), Rat(-1)>>

\* C7: NLMS.update_step(e, x) has the length N of x and is
\* (mu / (eps + sum_i x[i]^2)) * e * x with eps = 1e-6, a scalar multiple of x;
\* e = 1, x = [3, 4], mu = 1 gives x / 25.000001.
C7_NlmsUpdate ==
    (upd.pc = "called" /\ algorithm = "NLMS") =>
        LET power == RAdd(<<1, 1000000>>, Sum([i \in 1..Len(upd.x) |-> RMul(upd.x[i], upd.x[i])]))
        IN /\ Len(upd.out) = N /\ Len(upd.x) = N
           /\ p[1] = power
           /\ \A i \in 1..N : RMul(upd.out[i], power) = RMul(RMul(mu, upd.e), upd.x[i])
           /\ \E c \in {RDiv(RMul(mu, upd.e), power)} :
                 \A i \in 1..N : upd.out[i] = RMul(c, upd.x[i])
           /\ (mu = Rat(1) /\ upd.e = Rat(1) /\ upd.x = <<Rat(3), Rat(4)>>) =>
                 upd.out = <<<<3000000, 25000001>>, <<4000000, 25000001>>>>

\* NLMS.update_step was called with e = 1, x = [3, 4], mu = 1
C7_Witness ==
    /\ upd.pc = "called" /\ algorithm = "NLMS"
    /\ mu = Rat(1) /\ upd.e = Rat(1) /\ upd.x = <<Rat(3), Rat(4)>>
    /\ upd.out = <<<<3000000, 25000001>>, <<4000000, 25000001>>>>

(***************************************************************************)
(* EvaluationSuite.MSE on its own (specification SpecMse).                 *)
(***************************************************************************)
\* np.mean(v): the sum over the length; nan for an empty array
mean(v) == RDiv(Sum(v), Rat(Len(v)))

\* the mean of the squared differences
MSE_meanOfSquares(desired_signal, input_signal) ==
    LET diff == VSub(desired_signal, input_signal)
    IN mean([i \in 1..Len(diff) |-> RMul(diff[i], diff[i])])

\* EvaluationSuite.MSE: np.mean(desired_signal - input_signal) ** 2
MSE(desired_signal, input_signal) ==
    LET m == mean(VSub(desired_signal, input_signal))
    IN RMul(m, m)

MseValues == {Rat(0), Rat(1), Rat(2)}

InitMse ==
    /\ algorithm \in Algorithms
    /\ mu \in StepSizes
    /\ N = 1
    /\ W = [i \in Instances |-> <<>>]
    /\ p = [i \in Instances |-> Zero]
    /\ run = [r \in Runs |-> IdleFrame]
    /\ upd = IdleUpd
    /\ snr_call = IdleSnr
    /\ sel = IdleSel
    /\ \E a \in SeqsUpTo(MseValues, MaxSeq), b \in SeqsUpTo(MseValues, MaxSeq) :
          /\ Len(a) = Len(b)
          /\ mse = [IdleMse EXCEPT !.pc = "ready", !.a = a, !.b = b]

\* evaluation_runner.MSE(a, b)
MSE_call ==
    /\ mse.pc = "ready"
    /\ mse' = [mse EXCEPT !.pc = "called", !.out = MSE(mse.a, mse.b)]
    /\ UNCHANGED <<algorithm, mu, N, W, p, run, upd, snr_call, sel>>

NextMse == MSE_call

SpecMse == InitMse /\ [][NextMse]_vars

\* the sum of the differences a[i] - b[i]
SumOfDifferences == RSub(Sum(mse.a), Sum(mse.b))

FileSignals ==
    {t \in DesiredSignals \X ReferenceSignals \X CleanSignals :
        Len(t[1]) = Len(t[2]) /\ Len(t[2]) = Len(t[3])}

\* noise_evaluation: af_filter = select_algorithm(...), then for each file i in
\* turn af_filter.filter(d, x, clean_signal, return_metrics=True); the results
\* of file i - 1 are overwritten, and an exception ends the loop
HarnessCall(r) ==
    /\ run[r].pc = "idle"
    /\ r > 1 => run[r - 1].pc = "done"
    /\ \E t \in FileSignals, draws \in NormalDraws(IF N < 0 THEN 0 ELSE N) :
          LET cleared == IF r > 1
                         THEN [run EXCEPT ![r - 1] = [IdleFrame EXCEPT !.pc = "finished"]]
                         ELSE run
          IN Prologue(cleared, r, 1, Shaped(t[1], 1), Shaped(t[2], 1), Shaped(t[3], 1),
                      TRUE, draws)
    /\ UNCHANGED <<algorithm, mu, N, p, upd, mse, snr_call, sel>>

NextHarness == \E r \in Runs : HarnessCall(r) \/ LoopStep(r) \/ LoopExit(r)

SpecHarness == Init /\ [][NextHarness]_vars

\* the run of filter() on its own: the state after n samples of the loop started
\* from weights w0 and an all-zero window
RECURSIVE RefState(_, _, _, _, _, _, _)
RefState(alg, m, w0, order, ds, xs, n) ==
    IF n = 0
    THEN [W |-> w0, circ_buffer |-> zeros(order), y |-> <<>>, e |-> <<>>]
    ELSE LET prev == RefState(alg, m, w0, order, ds, xs, n - 1)
             s == SampleStep(alg, m, prev.W, Zero, prev.circ_buffer, xs[n], ds[n])
         IN [W |-> s.W, circ_buffer |-> s.circ_buffer,
             y |-> Append(prev.y, s.y), e |-> Append(prev.e, s.e)]

\* the outputs of run r are those of a run on its own from the call's arguments
\* and the weights freshly drawn in it
AsAlone(r) ==
    LET f == run[r]
        t == Truncate(f.arg_d.data, f.arg_x.data, f.arg_clean.data)
        ref == RefState(algorithm, mu, Scale(Frac(1, 1000), f.draws), N, t.d, t.x, Len(t.x))
    IN /\ f.ret.error = ref.e
       /\ f.ret.noise_estimate = ref.y

\* C8: every call of a sequence of calls on one instance returns what a run on
\* its own returns from that call's arguments and the weights freshly drawn in
\* it: the weights, window and normaliser an earlier call left have no influence.
C8_NoCarryOver ==
    \A r \in Runs : run[r].pc = "done" => AsAlone(r)

\* a later call, which found the weights and the normaliser of an earlier call
\* on the instance, returned two samples or more
C8_Witness ==
    \E r \in Runs :
        /\ r > 1
        /\ run[r].pc = "done"
        /\ run[r].staleW /\ run[r].staleP
        /\ Len(run[r].ret.error) >= 2
        /\ run[r].Whist[2] # run[r].Whist[1]

\* filter() called by a thread of its own: the first thread on instance 1, a
\* later one on instance 1 too or on instance 2
ThreadCall(r) ==
    /\ run[r].pc = "idle"
    /\ \E i \in (IF r = 1 THEN {1} ELSE Instances), t \in FileSignals,
          draws \in NormalDraws(IF N < 0 THEN 0 ELSE N) :
          Prologue(run, r, i, Shaped(t[1], 1), Shaped(t[2], 1), Shaped(t[3], 1), FALSE, draws)
    /\ UNCHANGED <<algorithm, mu, N, p, upd, mse, snr_call, sel>>

NextConc == \E r \in Runs : ThreadCall(r) \/ LoopStep(r) \/ LoopExit(r)

SpecConc == Init /\ [][NextConc]_vars

PCoef(f, i) == IF i \in 1..Len(f) THEN f[i] ELSE 0

PAdd(f, g) ==
    [i \in 1..(IF Len(f) > Len(g) THEN Len(f) ELSE Len(g)) |-> PCoef(f, i) + PCoef(g, i)]

PNeg(f) == [i \in 1..Len(f) |-> 0 - f[i]]

RECURSIVE PConv(_, _, _, _)
PConv(f, g, k, i) ==
    IF i > Len(f) THEN 0 ELSE f[i] * PCoef(g, k - i + 1) + PConv(f, g, k, i + 1)

PMul(f, g) == [k \in 1..(Len(f) + Len(g) - 1) |-> PConv(f, g, k, 1)]

PSign(f) ==
    IF \A i \in 1..Len(f) : f[i] = 0 THEN 0
    ELSE LET i == CHOOSE j \in 1..Len(f) : f[j] # 0 /\ \A k \in 1..(j - 1) : f[k] = 0
         IN IF f[i] > 0 THEN 1 ELSE -1

\* a rational (or nan) as a quotient
QOf(r) == <<<<r[1]>>, <<r[2]>>>>

\* the literal 1e-10
Floor1e10 == <<<<0, 1>>, <<1>>>>

QAdd(u, v) == <<PAdd(PMul(u[1], v[2]), PMul(v[1], u[2])), PMul(u[2], v[2])>>

QSub(u, v) == <<PAdd(PMul(u[1], v[2]), PNeg(PMul(v[1], u[2]))), PMul(u[2], v[2])>>

QDiv(u, v) == <<PMul(u[1], v[2]), PMul(u[2], v[1])>>

QIsNaN(u) == PSign(u[1]) = 0 /\ PSign(u[2]) = 0

QIsInf(u) == PSign(u[1]) # 0 /\ PSign(u[2]) = 0

QFinite(u) == PSign(u[2]) # 0

QSign(u) == PSign(u[1]) * PSign(u[2])

\* u > 0, u >= v and u < v on finite numbers; FALSE when one is nan
QPositive(u) == QFinite(u) /\ QSign(u) > 0

QGeq(u, v) == QFinite(u) /\ QFinite(v) /\ QSign(QSub(u, v)) >= 0

QLess(u, v) == QFinite(u) /\ QFinite(v) /\ QSign(QSub(u, v)) < 0

\* desired_signal ** 2, element by element
Squared(v) == [i \in 1..Len(v) |-> RMul(v[i], v[i])]

(***************************************************************************)
(* np.log10 is strictly increasing, so its result is kept as the number    *)
(* whose logarithm it is: kind says whether the result is finite, -inf     *)
(* (log10 of 0), inf or nan (log10 of a negative number or of nan).        *)
(***************************************************************************)
log10(u) ==
    [kind |-> IF QIsNaN(u) THEN "nan"
              ELSE IF QIsInf(u) THEN (IF PSign(u[1]) > 0 THEN "inf" ELSE "nan")
              ELSE IF QSign(u) < 0 THEN "nan"
              ELSE IF QSign(u) = 0 THEN "-inf"
              ELSE "finite",
     of |-> u]

\* EvaluationSuite.SNR: the locals of lines 44-47 and ret, the number whose
\* 10 * log10 line 48 returns
SNR(desired_signal, noisy_signal) ==
    LET signal_power == QOf(mean(Squared(desired_signal)))
        noise_power == QOf(mean(Squared(noisy_signal)))
        divisor == QAdd(noise_power, Floor1e10)
        ratio == QDiv(signal_power, divisor)
        arg == QAdd(ratio, Floor1e10)
    IN [signal_power |-> signal_power, noise_power |-> noise_power,
        divisor |-> divisor, snr |-> ratio, arg |-> arg, ret |-> log10(arg)]

\* the powers of ten the decibel thresholds -100, -10, 0 and 10 stand for
Pow10(k) ==
    CASE k = -10 -> Floor1e10
      [] k = -1 -> QOf(Frac(1, 10))
      [] k = 0 -> QOf(Rat(1))
      [] k = 1 -> QOf(Rat(10))

\* 10 * log10(r.of) >= 10 * k
AtLeastDb(r, k) == r.kind = "finite" /\ QGeq(r.of, Pow10(k))

\* sample values of the signals SNR is called with
SnrValues == {Rat(0), Rat(1), Rat(-2)}

InitSnr ==
    /\ algorithm \in Algorithms
    /\ mu \in StepSizes
    /\ N = 1
    /\ W = [i \in Instances |-> <<>>]
    /\ p = [i \in Instances |-> Zero]
    /\ run = [r \in Runs |-> IdleFrame]
    /\ upd = IdleUpd
    /\ mse = IdleMse
    /\ sel = IdleSel
    /\ \E a \in SeqsUpTo(SnrValues, MaxSeq), b \in SeqsUpTo(SnrValues, MaxSeq) :
          snr_call = [IdleSnr EXCEPT !.pc = "ready", !.desired_signal = a,
                                     !.noisy_signal = b]

\* evaluation_runner.SNR(desired_signal, noisy_signal)
SNR_call ==
    /\ snr_call.pc = "ready"
    /\ snr_call' = [snr_call EXCEPT !.pc = "called",
                       !.out = SNR(snr_call.desired_signal, snr_call.noisy_signal)]
    /\ UNCHANGED <<algorithm, mu, N, W, p, run, upd, mse, sel>>

NextSnr == SNR_call

SpecSnr == InitSnr /\ [][NextSnr]_vars

(***************************************************************************)
(* C11: SNR(desired, noisy) called with desired == noisy returns a large   *)
(* finite number bounded by the 1e-10 floor and divides by no zero: the    *)
(* divisor mean(noisy^2) + 1e-10 and the argument of the logarithm are     *)
(* strictly positive for every (non-empty) input, all-zero signals         *)
(* included.  The result is in decibels; "large" is read as at least 10 dB *)
(* in magnitude, "bounded by the floor" as at least -100 dB.               *)
(***************************************************************************)
C11_LargeFiniteSnr ==
    (snr_call.pc = "called" /\ snr_call.desired_signal # <<>>
                            /\ snr_call.noisy_signal # <<>>) =>
        LET o == snr_call.out
        IN /\ QPositive(o.divisor)
           /\ QPositive(o.arg)
           /\ snr_call.desired_signal = snr_call.noisy_signal =>
                 /\ o.ret.kind = "finite"
                 /\ AtLeastDb(o.ret, -10)
                 /\ (AtLeastDb(o.ret, 1) \/ ~AtLeastDb(o.ret, -1))

(***************************************************************************)
(* select_algorithm (evaluation.py, lines 78-132).  An instance is the     *)
(* record of what its constructor stores; class names the constructor.     *)
(* Of the six classes only NLMS is in the sources: the others are taken to *)
(* construct as NLMS does, storing their arguments unchecked.              *)
(***************************************************************************)
NLMS_init(m, n) ==
    [class |-> "NLMS", mu |-> m, N |-> n, algorithm |-> "NLMS", eps |-> eps, p |-> Zero]

LMS_init(m, n) == [class |-> "LMS", mu |-> m, N |-> n, algorithm |-> "LMS"]

RLS_init(m, n) == [class |-> "RLS", mu |-> m, N |-> n, algorithm |-> "RLS"]

APA_init(m, n, b) ==
    [class |-> "APA", mu |-> m, N |-> n, algorithm |-> "APA", block_size |-> b]

FDLMS_init(m, n, b) ==
    [class |-> "FDLMS", mu |-> m, N |-> n, algorithm |-> "FDLMS", block_size |-> b]

FDNLMS_init(m, n, b) ==
    [class |-> "FDNLMS", mu |-> m, N |-> n, algorithm |-> "FDNLMS", block_size |-> b]

\* the dict of lines 99-103
algos(m, filter_order) ==
    [k \in {"LMS", "NLMS", "RLS"} |->
        CASE k = "LMS" -> LMS_init(m, filter_order)
          [] k = "NLMS" -> NLMS_init(m, filter_order)
          [] k = "RLS" -> RLS_init(m, filter_order)]

\* the dict of lines 105-109
block_algos(m, filter_order, block_size) ==
    [k \in {"APA", "FDLMS", "FDNLMS"} |->
        CASE k = "APA" -> APA_init(m, filter_order, block_size)
          [] k = "FDLMS" -> FDLMS_init(m, filter_order, block_size)
          [] k = "FDNLMS" -> FDNLMS_init(m, filter_order, block_size)]

select_algorithm_defaultLMS(filter_order, m, alg, block_size) ==
    LET a == algos(m, filter_order)
        b == block_algos(m, filter_order, block_size)
    IN [raised |-> "none",
        af_filter |-> IF alg \in DOMAIN b THEN b[alg]
                      ELSE IF alg \in DOMAIN a THEN a[alg] ELSE a["LMS"]]

select_algorithm(filter_order, m, alg, block_size) ==
    LET a == algos(m, filter_order)
        b == block_algos(m, filter_order, block_size)
    IN IF alg \notin DOMAIN a /\ alg \notin DOMAIN b
       THEN [raised |-> "ValueError", af_filter |-> <<>>]
       ELSE [raised |-> "none",
             af_filter |-> IF alg \in DOMAIN b THEN b[alg] ELSE a[alg]]

\* the identifiers a caller passes: the six names and others
Identifiers == {"LMS", "NLMS", "RLS", "APA", "FDLMS", "FDNLMS",
                "", "lms", "Kalman", "FilterModel"}

\* the block sizes a caller passes; noise_evaluation defaults to 0
BlockSizes == 0..MaxOrder

InitSel ==
    /\ algorithm \in Algorithms
    /\ mu \in StepSizes
    /\ N = 1
    /\ W = [i \in Instances |-> <<>>]
    /\ p = [i \in Instances |-> Zero]
    /\ run = [r \in Runs |-> IdleFrame]
    /\ upd = IdleUpd
    /\ mse = IdleMse
    /\ snr_call = IdleSnr
    /\ \E n \in Orders, m \in UpdStepSizes, a \in Identifiers, b \in BlockSizes :
          sel = [IdleSel EXCEPT !.pc = "ready", !.filter_order = n, !.mu = m,
                                !.algorithm = a, !.block_size = b]

\* af_filter = select_algorithm(filter_order, mu, algorithm, block_size)
select_algorithm_call ==
    /\ sel.pc = "ready"
    /\ sel' = [sel EXCEPT !.pc = "called",
                  !.out = select_algorithm(sel.filter_order, sel.mu, sel.algorithm,
                                           sel.block_size)]
    /\ UNCHANGED <<algorithm, mu, N, W, p, run, upd, mse, snr_call>>

NextSel == select_algorithm_call

SpecSel == InitSel /\ [][NextSel]_vars

C13_WindowNewestFirst ==
    \A r \in Runs :
        (run[r].pc \in {"loop", "done", "out_of_range"} /\ N >= 1) =>
            LET f == run[r]
                n == f.sample - 1
            IN /\ Len(f.circ_buffer) = N
               /\ \A i \in 0..(N - 1) :
                     f.circ_buffer[i + 1] = IF i <= n THEN f.x[n - i + 1] ELSE Zero

\* two samples 1, 0 went through a window of two taps, the newer one first,
\* and the zero the window started with was dropped
C13_Witness ==
    \E r \in Runs :
        /\ run[r].pc = "done" /\ N = 2 /\ run[r].sample = 2
        /\ run[r].x = <<Rat(1), Rat(0)>>
        /\ run[r].circ_buffer = <<Rat(0), Rat(1)>>

(***************************************************************************)
(* C14: the NLMS sample loop raises on no numeric edge case.  After every  *)
(* sample the normaliser self.p is eps + ||window||^2, which is at least   *)
(* eps > 0, so update_step divided by no zero and the outputs and weights  *)
(* are numbers; for the all-zero window the delta is all zero and the      *)
(* weights are those before the sample.                                    *)
(***************************************************************************)
C14_NlmsNormaliserPositive ==
    \A r \in Runs :
        (algorithm = "NLMS" /\ N >= 1) =>
            LET f == run[r]
            IN /\ f.pc # "raised"
               /\ (f.pc \in {"loop", "done"} /\ f.sample >= 1) =>
                     /\ p[f.inst] = RAdd(eps, NormSq(f.circ_buffer))
                     /\ RLeq(eps, p[f.inst])
                     /\ ~RLeq(eps, Zero)
                     /\ Finite(f.noise_estimate[f.sample])
                     /\ Finite(f.error[f.sample])
                     /\ AllFinite(W[f.inst])
                     /\ (\A i \in 1..N : f.circ_buffer[i] = Zero) =>
                           /\ p[f.inst] = eps
                           /\ f.Whist[f.sample + 1] = f.Whist[f.sample]

\* an NLMS run processed a sample with an all-zero window of two taps and a
\* non-zero error, and kept its weights
C14_Witness ==
    \E r \in Runs :
        /\ algorithm = "NLMS" /\ N = 2
        /\ run[r].pc \in {"loop", "done"} /\ run[r].sample >= 1
        /\ run[r].circ_buffer = <<Zero, Zero>>
        /\ run[r].error[run[r].sample] # Zero
        /\ p[run[r].inst] = eps
        /\ W[run[r].inst] = run[r].Whist[run[r].sample]

(***************************************************************************)
(* C15: filter() leaves the caller's arrays as they were passed: at every  *)
(* point of a call, and after it, with or without truncation and with or   *)
(* without return_metrics, d, x and clean_signal have the shape and the    *)
(* elements they had when the call was made.                               *)
(***************************************************************************)
C15_InputsUnchanged ==
    \A r \in Runs :
        run[r].pc # "idle" =>
            /\ run[r].caller.d = run[r].arg_d
            /\ run[r].caller.x = run[r].arg_x
            /\ run[r].caller.clean_signal = run[r].arg_clean

\* a call with return_metrics that truncated d to the clean signal wrote a
\* non-zero error and a non-zero prediction and returned
C15_Witness ==
    \E r \in Runs :
        /\ run[r].pc = "done" /\ run[r].ret.with_metrics
        /\ Len(run[r].arg_clean.data) < Len(run[r].arg_d.data)
        /\ run[r].sample >= 1
        /\ run[r].error[1] # Zero /\ run[r].noise_estimate[1] # Zero
        /\ run[r].caller.d = run[r].arg_d
        /\ Len(run[r].d) < Len(run[r].caller.d.data)

====
